---- MODULE Spec2Model ----
(***************************************************************************)
(* State-machine model of the ACPI generic fan driver, in its two drafts:  *)
(*   "acpi_fan"    src/acpi_fan.c     (legacy _ON/_OFF/_STA control)       *)
(*   "acpi_fan_v4" src/acpi_fan_v4.c  (ACPI 4.0 _FIF/_FST/_FPS/_FSL draft) *)
(* One behaviour follows one fan device of one draft from before attach to *)
(* after detach.  Firmware evaluations succeed or fail nondeterministically*)
(* at every call.                                                          *)
(***************************************************************************)
EXTENDS Integers, Sequences, FiniteSets, TLC

VARIABLES
    draft,  \* which source file drives the device
    fw,     \* the firmware namespace of the device (the ACPI objects)
    phase,  \* "probed" -> "attached" -> "detached"
    sc,     \* struct acpi_fan_softc
    oids,   \* sysctl endpoints published by attach
    buf,    \* the firmware-allocated reply of get_fps: none/held/lost/freed
    last,   \* the most recently completed entry point and what it did
    pc,     \* per caller: the entry point it is inside (ConcSpec only)
    creq    \* per caller: the request it carries       (ConcSpec only)

vars == <<draft, fw, phase, sc, oids, buf, last, pc, creq>>

----------------------------------------------------------------------------
(* Program constants *)

\* upper end of the accepted level range: requested_speed <= 100
MaxPercent == 100
\* power state reported when _STA cannot be evaluated: state = 2
StateUnknown == 2
\* smallest package count get_fps accepts: obj->package.count < 2 is invalid
MinFpsCount == 2
\* fields of the status object: revision, control, speed
FstFields == 3

(* Bounds of the model *)

\* requests are drawn from within ReqSlack of 0 and of MaxPercent
ReqSlack == 1
\* writes to the power endpoint are drawn from 0..MaxPowerArg
MaxPowerArg == 2
\* _STA replies and acpi_get_powerstate results are drawn from 0..MaxSta
MaxSta == 3
\* reply packages hold 0..MaxPkg elements
MaxPkg == 3
\* number of concurrent callers of the endpoints
NCallers == 2

Drafts == {"acpi_fan", "acpi_fan_v4"}

\* control values of the firmware's performance states (index 0, the
\* revision marker, left out): the two-level table {50, 100}
TableControls == <<50, 100>>
TableSet == {TableControls[i] : i \in 1..Len(TableControls)}
\* a level between two table entries, matching none of them
OffTable == (TableControls[1] + TableControls[2]) \div 2

ReqValues ==
    ((0 - ReqSlack)..ReqSlack) \cup TableSet \cup {OffTable}
        \cup ((MaxPercent - ReqSlack)..(MaxPercent + ReqSlack))
PowerArgs == 0..MaxPowerArg
StaValues == 0..MaxSta

\* what evaluating _FST hands back: an object of some type and element
\* count, its elements all integers or not
Replies ==
    {[type |-> "package", count |-> n, elems |-> "integer"] : n \in 0..MaxPkg}
        \cup {[type |-> "package", count |-> n, elems |-> "other"] :
                 n \in MinFpsCount..MaxPkg}
        \cup {[type |-> "integer", count |-> 0, elems |-> "none"],
               [type |-> "null", count |-> 0, elems |-> "none"]}

\* rpm the firmware reports at a control value
Rpm(level) == level * 60

----------------------------------------------------------------------------
(* Records of what an entry point did *)

\* one firmware evaluation: object, argument, outcome, and the powered flag
\* of the softc at the moment it was issued
Ev(obj, arg, ok, pw) ==
    [obj |-> obj, arg |-> arg, ok |-> ok, pw |-> pw, val |-> 0]
\* an evaluation that hands back an integer: val is the integer, 0 when the
\* evaluation failed and handed back nothing
EvInt(obj, ok, pw, val) ==
    [obj |-> obj, arg |-> 0, ok |-> ok, pw |-> pw,
     val |-> IF ok THEN val ELSE 0]

NoPrev == [op |-> "none", arg |-> 0, wrote |-> FALSE]

PowerObjs == {"_ON", "_OFF", "_PS3", "_PS0"}

\* what is remembered of the entry point before the last one: a level write
\* whose _FSL evaluation succeeded, a power write or a suspend whose power
\* evaluation succeeded, or nothing
Summary(l) ==
    IF \/ /\ l.op = "level_write"
          /\ \E i \in 1..Len(l.evals) :
                l.evals[i].obj = "_FSL" /\ l.evals[i].ok
       \/ /\ l.op \in {"power_write", "suspend"}
          /\ \E i \in 1..Len(l.evals) :
                l.evals[i].obj \in PowerObjs /\ l.evals[i].ok
    THEN [op |-> l.op, arg |-> l.arg, wrote |-> TRUE]
    ELSE NoPrev

\* the record left by a completed entry point
Done(op, arg, r, pre) ==
    [op |-> op, arg |-> arg, ret |-> r.ret, out |-> r.out,
     evals |-> r.evals, pre |-> pre, prev |-> Summary(last)]

Issued(l, objs) == {i \in 1..Len(l.evals) : l.evals[i].obj \in objs}

\* the power state a transition object drives the device to
PowerTarget(obj) == IF obj \in {"_ON", "_PS3"} THEN 1 ELSE 0

\* the firmware after a sequence of evaluations: the device is in the power
\* state of the last transition that succeeded
Transitioned(f, evals) ==
    LET done == {i \in 1..Len(evals) :
                    evals[i].obj \in PowerObjs /\ evals[i].ok}
    IN IF done = {} THEN f
       ELSE LET i == CHOOSE k \in done : \A j \in done : j <= k
            IN [f EXCEPT !.power = PowerTarget(evals[i].obj)]

----------------------------------------------------------------------------
(* Initial state: the device has been probed, the softc is allocated and   *)
(* not yet written by the driver.  Neither draft ever stores into sc->fif  *)
(* or sc->fst (get_fif/get_fst are stubs in acpi_fan.c and copy out of the *)
(* softc in acpi_fan_v4.c), so their contents are whatever the allocation  *)
(* holds: both values of fine_grain_ctrl and two control values are taken. *)
(* The device itself is on: the ACPI subsystem powers on the devices it    *)
(* enumerates, which is what attach relies on when it sets the flag to 1.  *)

Softc0(fg, c) ==
    [acpi4 |-> 0, powered |-> 0, fine_grain |-> fg,
     fst |-> [revision |-> 0, control |-> c, speed |-> Rpm(c)],
     max_fps |-> 0, fps |-> "NULL"]

Init ==
    /\ draft \in Drafts
    /\ fw \in [hasFIF : BOOLEAN, hasFST : BOOLEAN, hasFSL : BOOLEAN,
               fineGrain : {0, 1}, fstReply : Replies, level : {0},
               power : {1}]
    /\ ~fw.hasFIF => fw.fineGrain = 0
    /\ ~fw.hasFST => fw.fstReply.type = "null"
    /\ phase = "probed"
    /\ \E fg \in {0, 1}, c \in {0, TableControls[1]} : sc = Softc0(fg, c)
    /\ oids = {}
    /\ buf = "none"
    /\ last = [op |-> "none", arg |-> 0, ret |-> "success", out |-> <<>>,
               evals |-> <<>>, pre |-> sc, prev |-> NoPrev]
    /\ pc = [t \in 1..NCallers |-> "idle"]
    /\ creq = [t \in 1..NCallers |-> 0]

----------------------------------------------------------------------------
(* Helper functions of src/acpi_fan.c *)

\* a variant that evaluates the object a second time when the first
\* evaluation failed
acpi_fan_set_power_retry(s, new_state, ok) ==
    LET obj == IF new_state = 1 THEN "_ON" ELSE "_OFF"
    IN [sc |-> s,
        evals |-> IF new_state \notin {0, 1} THEN <<>>
                  ELSE IF ok THEN <<Ev(obj, 0, TRUE, s.powered)>>
                  ELSE <<Ev(obj, 0, FALSE, s.powered),
                         Ev(obj, 0, TRUE, s.powered)>>]

\* acpi_fan_set_power: evaluates _ON or _OFF, logs a failure, returns void;
\* the softc is not written.
acpi_fan_set_power(s, new_state, ok) ==
    [sc |-> s,
     evals |-> IF new_state = 1 THEN <<Ev("_ON", 0, ok, s.powered)>>
               ELSE IF new_state = 0 THEN <<Ev("_OFF", 0, ok, s.powered)>>
               ELSE <<>>]

\* a variant that uses the integer whether or not the evaluation succeeded
acpi_fan_get_power_state_unchecked(s, staOk, sta) ==
    [state |-> sta,
     evals |-> <<EvInt("_STA", staOk, s.powered, sta)>>]

\* acpi_fan_get_power_state: the _STA integer, or 2 when _STA fails
acpi_fan_get_power_state(s, staOk, sta) ==
    [state |-> IF staOk THEN sta ELSE StateUnknown,
     evals |-> <<EvInt("_STA", staOk, s.powered, sta)>>]

\* acpi_fan_get_fif / acpi_fan_get_fst / acpi_fan_get_fps: the bodies are
\* commented out, each returns 1 without touching firmware or softc.
acpi_fan_get_fif(s) == [ret |-> 1, sc |-> s, evals |-> <<>>]
acpi_fan_get_fst(s) == [ret |-> 1, sc |-> s, evals |-> <<>>]
acpi_fan_get_fps(s) == [ret |-> 1, sc |-> s, evals |-> <<>>]

(* Helper functions of src/acpi_fan_v4.c *)

\* a variant that flips the flag on success instead of storing the target
v4_acpi_fan_set_on_toggle(s, new_state, ok) ==
    IF new_state # 0
    THEN [sc |-> IF ok THEN [s EXCEPT !.powered = 1 - s.powered] ELSE s,
          evals |-> <<Ev("_PS3", 0, ok, s.powered)>>]
    ELSE [sc |-> IF ok THEN [s EXCEPT !.powered = 1 - s.powered] ELSE s,
          evals |-> <<Ev("_PS0", 0, ok, s.powered)>>]

\* acpi_fan_set_on: evaluates _PS3 (on) or _PS0 (off); the flag follows only
\* a successful evaluation, a failure is logged and the function returns.
v4_acpi_fan_set_on(s, new_state, ok) ==
    IF new_state # 0
    THEN [sc |-> IF ok THEN [s EXCEPT !.powered = 1] ELSE s,
          evals |-> <<Ev("_PS3", 0, ok, s.powered)>>]
    ELSE [sc |-> IF ok THEN [s EXCEPT !.powered = 0] ELSE s,
          evals |-> <<Ev("_PS0", 0, ok, s.powered)>>]

\* memcpy(dest, src, n): the contents dest holds afterwards
memcpy(dest, src) == src

\* the reply object a successful AcpiEvaluateObject of _FIF leaves in the
\* buffer: the fine-grain flag the firmware reports
FifReply(f) == [fine_grain_ctrl |-> f.fineGrain]

\* acpi_fan_get_fif: 0 when _FIF is absent or fails.  On success
\* memcpy(fif_buffer, &sc->acpi_fan_fif, ..) fills the local reply buffer
\* from the softc; the softc keeps its contents.
v4_acpi_fan_get_fif(s, f, ok) ==
    IF ~f.hasFIF THEN [ret |-> 0, sc |-> s, evals |-> <<>>]
    ELSE IF ~ok THEN [ret |-> 0, sc |-> s,
                      evals |-> <<Ev("_FIF", 0, FALSE, s.powered)>>]
    ELSE LET fif_buffer == memcpy(FifReply(f), [fine_grain_ctrl |-> s.fine_grain])
         IN [ret |-> 1, sc |-> s,
             evals |-> <<Ev("_FIF", 0, TRUE, s.powered)>>]

\* a variant that takes the level count from the status reply
v4_acpi_fan_get_fst_count(s, f, ok) ==
    IF ~f.hasFST THEN [ret |-> 0, sc |-> s, evals |-> <<>>]
    ELSE IF ~ok THEN [ret |-> 0, sc |-> s,
                      evals |-> <<Ev("_FST", 0, FALSE, s.powered)>>]
    ELSE [ret |-> 1, sc |-> [s EXCEPT !.max_fps = f.fstReply.count],
          evals |-> <<Ev("_FST", 0, TRUE, s.powered)>>]

\* acpi_fan_get_fst: 0 when _FST is absent or fails.  The reply's shape is
\* not looked at; memcpy(fst_buffer, &sc->acpi_fan_fst, ..) fills the local
\* reply buffer from the softc; the softc keeps its contents.
v4_acpi_fan_get_fst(s, f, ok) ==
    IF ~f.hasFST THEN [ret |-> 0, sc |-> s, evals |-> <<>>]
    ELSE IF ~ok THEN [ret |-> 0, sc |-> s,
                      evals |-> <<Ev("_FST", 0, FALSE, s.powered)>>]
    ELSE LET fst_buffer == memcpy(f.fstReply, s.fst)
         IN [ret |-> 1, sc |-> s,
             evals |-> <<Ev("_FST", 0, TRUE, s.powered)>>]

\* the shape test of get_fps: !obj || type != PACKAGE || count < 2
FpsInvalid(obj) ==
    obj.type = "null" \/ obj.type # "package" \/ obj.count < MinFpsCount

\* acpi_fan_get_fps: looks up and evaluates "_FST" into a firmware-allocated
\* buffer; an invalid reply returns 0 with the buffer neither stored nor
\* freed; a valid one sets max_fps and stores the pointer.
v4_acpi_fan_get_fps(s, f, ok) ==
    IF ~f.hasFST THEN [ret |-> 0, sc |-> s, evals |-> <<>>, buf |-> "none"]
    ELSE IF ~ok THEN [ret |-> 0, sc |-> s, buf |-> "none",
                      evals |-> <<Ev("_FST", 0, FALSE, s.powered)>>]
    ELSE IF FpsInvalid(f.fstReply)
    THEN [ret |-> 0, sc |-> s,
          buf |-> IF f.fstReply.type = "null" THEN "none" ELSE "lost",
          evals |-> <<Ev("_FST", 0, TRUE, s.powered)>>]
    ELSE [ret |-> 1,
          sc |-> [s EXCEPT !.max_fps = f.fstReply.count - 1, !.fps = "obj"],
          buf |-> "held",
          evals |-> <<Ev("_FST", 0, TRUE, s.powered)>>]

----------------------------------------------------------------------------
(* Device methods *)

Frame == UNCHANGED <<draft, pc, creq>>

\* acpi_fan_attach of src/acpi_fan.c
acpi_fan_attach ==
    /\ draft = "acpi_fan" /\ phase = "probed"
    /\ LET s1 == [sc EXCEPT !.powered = 1]
           r1 == acpi_fan_get_fif(s1)
           r2 == acpi_fan_get_fst(r1.sc)
           r3 == acpi_fan_get_fps(r2.sc)
           v4ok == r1.ret # 0 /\ r2.ret # 0 /\ r3.ret # 0 /\ fw.hasFSL
           r == [ret |-> "success", out |-> <<>>,
                 evals |-> r1.evals \o r2.evals \o r3.evals]
       IN /\ sc' = [r3.sc EXCEPT !.acpi4 = IF v4ok THEN 1 ELSE 0]
          /\ oids' = IF v4ok THEN {} ELSE {"powered"}
          /\ last' = Done("attach", 0, r, sc)
    /\ phase' = "attached"
    /\ UNCHANGED <<fw, buf>> /\ Frame

\* acpi_fan_attach of src/acpi_fan_v4.c
v4_acpi_fan_attach ==
    /\ draft = "acpi_fan_v4" /\ phase = "probed"
    /\ \E fifOk \in BOOLEAN, fstOk \in BOOLEAN, fpsOk \in BOOLEAN :
        LET r1 == v4_acpi_fan_get_fif(sc, fw, fifOk)
            r2 == IF r1.ret # 0 THEN v4_acpi_fan_get_fst(r1.sc, fw, fstOk)
                  ELSE [ret |-> 0, sc |-> r1.sc, evals |-> <<>>]
            r3 == IF r2.ret # 0 THEN v4_acpi_fan_get_fps(r2.sc, fw, fpsOk)
                  ELSE [ret |-> 0, sc |-> r2.sc, evals |-> <<>>,
                        buf |-> "none"]
            v4ok == r3.ret # 0 /\ fw.hasFSL
            r == [ret |-> "success", out |-> <<>>,
                  evals |-> r1.evals \o r2.evals \o r3.evals]
        IN /\ sc' = [r3.sc EXCEPT !.acpi4 = IF v4ok THEN 1 ELSE 0,
                                  !.powered = 1]
           /\ oids' = IF ~v4ok THEN {"Fan_on"}
                      ELSE IF r3.sc.fine_grain # 0
                      THEN {"fan_speed", "Step_size", "rpm"}
                      ELSE {"current_fan_level", "max_fan_levels", "rpm"}
           /\ buf' = r3.buf
           /\ last' = Done("attach", 0, r, sc)
    /\ phase' = "attached"
    /\ UNCHANGED fw /\ Frame

\* acpi_fan_detach of src/acpi_fan.c: returns 0
acpi_fan_detach ==
    /\ draft = "acpi_fan" /\ phase = "attached"
    /\ phase' = "detached"
    /\ last' = Done("detach", 0,
                    [ret |-> "success", out |-> <<>>, evals |-> <<>>], sc)
    /\ UNCHANGED <<fw, sc, oids, buf>> /\ Frame

\* acpi_fan_detach of src/acpi_fan_v4.c: frees the sysctl context and the
\* stored performance-state reply
v4_acpi_fan_detach ==
    /\ draft = "acpi_fan_v4" /\ phase = "attached"
    /\ phase' = "detached"
    /\ oids' = {}
    /\ buf' = IF sc.fps # "NULL" THEN "freed" ELSE buf
    /\ last' = Done("detach", 0,
                    [ret |-> "success", out |-> <<>>, evals |-> <<>>], sc)
    /\ UNCHANGED <<fw, sc>> /\ Frame

----------------------------------------------------------------------------
(* Suspend and resume *)

NoEffect(s, f) ==
    [sc |-> s, fw |-> f, evals |-> <<>>, ret |-> "success", out |-> <<>>]

\* what a completed entry point leaves behind
Complete(op, arg, r) ==
    /\ sc' = r.sc
    /\ fw' = Transitioned(r.fw, r.evals)
    /\ last' = Done(op, arg, r, sc)
    /\ UNCHANGED <<phase, oids, buf>> /\ Frame

\* acpi_fan_suspend / acpi_fan_resume of src/acpi_fan.c: the power calls are
\* commented out, both return 0
acpi_fan_suspend ==
    /\ draft = "acpi_fan" /\ phase = "attached"
    /\ Complete("suspend", 0, NoEffect(sc, fw))

acpi_fan_resume ==
    /\ draft = "acpi_fan" /\ phase = "attached"
    /\ Complete("resume", 0, NoEffect(sc, fw))

\* acpi_fan_suspend / acpi_fan_resume of src/acpi_fan_v4.c
v4_suspend(s, f, ok) ==
    LET p == v4_acpi_fan_set_on(s, 0, ok)
    IN [sc |-> p.sc, fw |-> f, evals |-> p.evals, ret |-> "success",
        out |-> <<>>]

v4_resume(s, f, ok) ==
    LET p == v4_acpi_fan_set_on(s, 1, ok)
    IN [sc |-> p.sc, fw |-> f, evals |-> p.evals, ret |-> "success",
        out |-> <<>>]

v4_acpi_fan_suspend ==
    /\ draft = "acpi_fan_v4" /\ phase = "attached"
    /\ \E ok \in BOOLEAN : Complete("suspend", 0, v4_suspend(sc, fw, ok))

v4_acpi_fan_resume ==
    /\ draft = "acpi_fan_v4" /\ phase = "attached"
    /\ \E ok \in BOOLEAN : Complete("resume", 0, v4_resume(sc, fw, ok))

----------------------------------------------------------------------------
(* The level endpoint: acpi_fan_level_sysctl *)

\* the range test of the percentage branch, and of the level branch of
\* src/acpi_fan.c: (requested_speed <= 100) && (requested_speed >= 0)
InPercentRange(v) == v <= MaxPercent /\ v >= 0

\* the test of the level branch of src/acpi_fan_v4.c: if (requested_speed)
v4_LevelAccepted(v) == v # 0

\* a variant that also stores the written value into the cached status
FslWrite_cached(s, f, v, ok) ==
    [sc |-> IF ok THEN [s EXCEPT !.fst.control = v] ELSE s,
     fw |-> IF ok THEN [f EXCEPT !.level = v] ELSE f,
     evals |-> <<Ev("_FSL", v, ok, s.powered)>>]

\* the _FSL write: status = acpi_SetInteger(h, "_FSL", requested_speed); a
\* failure is logged.  Nothing of the softc is written.
FslWrite(s, f, v, ok) ==
    [sc |-> s,
     fw |-> IF ok THEN [f EXCEPT !.level = v] ELSE f,
     evals |-> <<Ev("_FSL", v, ok, s.powered)>>]

NoWrite(s, f) == [sc |-> s, fw |-> f, evals |-> <<>>]

\* the two branches of a write request of src/acpi_fan.c
level_fsl(s, f, v, fslOk) ==
    IF s.fine_grain # 0
    THEN IF InPercentRange(v) THEN FslWrite(s, f, v, fslOk)
         ELSE NoWrite(s, f)
    ELSE IF InPercentRange(v) THEN FslWrite(s, f, v, fslOk)
         ELSE NoWrite(s, f)

\* if(!sc->fan_powered) acpi_fan_set_power(dev, 1);
level_power(s, onOk) ==
    IF s.powered = 0 THEN acpi_fan_set_power(s, 1, onOk)
    ELSE [sc |-> s, evals |-> <<>>]

\* write request of src/acpi_fan.c
level_write(s, f, v, onOk, fslOk) ==
    LET p == level_power(s, onOk)
        w == level_fsl(p.sc, f, v, fslOk)
    IN [sc |-> w.sc, fw |-> w.fw, evals |-> p.evals \o w.evals,
        ret |-> "success", out |-> <<>>]

\* read request of src/acpi_fan.c
level_read(s, f) ==
    LET g == acpi_fan_get_fst(s)
    IN [sc |-> g.sc, fw |-> f, evals |-> g.evals, ret |-> "success",
        out |-> <<g.sc.fst.control>>]

\* the two branches of a write request of src/acpi_fan_v4.c
v4_level_fsl(s, f, v, fslOk) ==
    IF s.fine_grain # 0
    THEN IF InPercentRange(v) THEN FslWrite(s, f, v, fslOk)
         ELSE NoWrite(s, f)
    ELSE IF v4_LevelAccepted(v) THEN FslWrite(s, f, v, fslOk)
         ELSE NoWrite(s, f)

\* if(!sc->fan_is_running) acpi_fan_set_on(dev, 1);
v4_level_power(s, onOk) ==
    IF s.powered = 0 THEN v4_acpi_fan_set_on(s, 1, onOk)
    ELSE [sc |-> s, evals |-> <<>>]

\* write request of src/acpi_fan_v4.c
v4_level_write(s, f, v, onOk, fslOk) ==
    LET p == v4_level_power(s, onOk)
        w == v4_level_fsl(p.sc, f, v, fslOk)
    IN [sc |-> w.sc, fw |-> w.fw, evals |-> p.evals \o w.evals,
        ret |-> "success", out |-> <<>>]

\* read request of src/acpi_fan_v4.c
v4_level_read(s, f, ok) ==
    LET g == v4_acpi_fan_get_fst(s, f, ok)
    IN [sc |-> g.sc, fw |-> f, evals |-> g.evals, ret |-> "success",
        out |-> <<g.sc.fst.control>>]

\* The level and rpm endpoints of src/acpi_fan.c are not registered yet (the
\* registration is the commented block of attach, ACPI 4.0 branch); the
\* handlers are entered as that block would enter them.
LevelPublished ==
    IF draft = "acpi_fan" THEN sc.acpi4 = 1
    ELSE "fan_speed" \in oids \/ "current_fan_level" \in oids

RpmPublished ==
    IF draft = "acpi_fan" THEN sc.acpi4 = 1 ELSE "rpm" \in oids

\* the outcome of the power-on is drawn only when the power-on is issued
LevelInputs(s, onOk) == s.powered # 0 => onOk

\* what the uninitialised local requested_speed can hold when nothing was
\* copied into it: a value inside the accepted range and one outside
Indeterminate == {OffTable, MaxPercent + ReqSlack}

\* SYSCTL_IN(req, &requested_speed, ..), its result not looked at: the local
\* holds the caller's value when the copy succeeded and is left as it was,
\* never initialised, when the copy failed
SYSCTL_IN(v, copyOk, junk) == IF copyOk THEN v ELSE junk

\* the content of the uninitialised local is drawn only when it is used,
\* and a request whose copy fails, its value never reaching the handler, is
\* drawn once
CopyInputs(v, copyOk, junk) ==
    /\ copyOk => junk = OffTable
    /\ ~copyOk => v = 0

acpi_fan_level_sysctl_write ==
    /\ draft = "acpi_fan" /\ phase = "attached" /\ LevelPublished
    /\ \E v \in ReqValues, copyOk \in BOOLEAN, junk \in Indeterminate,
          onOk \in BOOLEAN, fslOk \in BOOLEAN :
         /\ LevelInputs(sc, onOk) /\ CopyInputs(v, copyOk, junk)
         /\ Complete("level_write", v,
                     level_write(sc, fw, SYSCTL_IN(v, copyOk, junk),
                                 onOk, fslOk))

acpi_fan_level_sysctl_read ==
    /\ draft = "acpi_fan" /\ phase = "attached" /\ LevelPublished
    /\ Complete("level_read", 0, level_read(sc, fw))

v4_acpi_fan_level_sysctl_write ==
    /\ draft = "acpi_fan_v4" /\ phase = "attached" /\ LevelPublished
    /\ \E v \in ReqValues, copyOk \in BOOLEAN, junk \in Indeterminate,
          onOk \in BOOLEAN, fslOk \in BOOLEAN :
         /\ LevelInputs(sc, onOk) /\ CopyInputs(v, copyOk, junk)
         /\ Complete("level_write", v,
                     v4_level_write(sc, fw, SYSCTL_IN(v, copyOk, junk),
                                    onOk, fslOk))

v4_acpi_fan_level_sysctl_read ==
    /\ draft = "acpi_fan_v4" /\ phase = "attached" /\ LevelPublished
    /\ \E ok \in BOOLEAN :
         Complete("level_read", 0, v4_level_read(sc, fw, ok))

----------------------------------------------------------------------------
(* The rpm endpoint: acpi_fan_rpm_sysctl *)

rpm_read(s, f) ==
    LET g == acpi_fan_get_fst(s)
    IN [sc |-> g.sc, fw |-> f, evals |-> g.evals, ret |-> "success",
        out |-> IF g.ret # 0 THEN <<g.sc.fst.speed>> ELSE <<>>]

v4_rpm_read(s, f, ok) ==
    LET g == v4_acpi_fan_get_fst(s, f, ok)
    IN [sc |-> g.sc, fw |-> f, evals |-> g.evals, ret |-> "success",
        out |-> IF g.ret # 0 THEN <<g.sc.fst.speed>> ELSE <<>>]

acpi_fan_rpm_sysctl ==
    /\ draft = "acpi_fan" /\ phase = "attached" /\ RpmPublished
    /\ Complete("rpm_read", 0, rpm_read(sc, fw))

v4_acpi_fan_rpm_sysctl ==
    /\ draft = "acpi_fan_v4" /\ phase = "attached" /\ RpmPublished
    /\ \E ok \in BOOLEAN : Complete("rpm_read", 0, v4_rpm_read(sc, fw, ok))

----------------------------------------------------------------------------
(* The power endpoint: acpi_fan_powered_sysctl / acpi_fan_on_sysctl *)

\* a variant that leaves the written value as it came
PoweredNormalize_raw(v) == v

\* "Correct bogus writes to either 0 or 1."
PoweredNormalize(v) == IF v # 0 THEN 1 ELSE 0

\* a variant that sets the flag to 2 when _STA gives no state
powered_write_unknown(s, f, v, copyOk, present, staOk, sta, pwOk) ==
    IF ~copyOk
    THEN [sc |-> s, fw |-> f, evals |-> <<>>, ret |-> "error", out |-> <<>>]
    ELSE
    LET s1 == [s EXCEPT !.powered = PoweredNormalize(v)]
        q == acpi_fan_get_power_state(s1, staOk, sta)
        p == acpi_fan_set_power(s1, s1.powered, pwOk)
    IN IF ~present
       THEN [sc |-> s1, fw |-> f, evals |-> <<>>, ret |-> "success",
             out |-> <<>>]
       ELSE IF q.state = StateUnknown
       THEN [sc |-> [s1 EXCEPT !.powered = StateUnknown], fw |-> f,
             evals |-> q.evals, ret |-> "success", out |-> <<>>]
       ELSE IF q.state # s1.powered
       THEN [sc |-> p.sc, fw |-> f, evals |-> q.evals \o p.evals,
             ret |-> "success", out |-> <<>>]
       ELSE [sc |-> s1, fw |-> f, evals |-> q.evals, ret |-> "success",
             out |-> <<>>]

\* write request of src/acpi_fan.c: the value is copied straight into
\* sc->fan_powered and normalised; the firmware is asked only when the
\* device is present, _STA answered something other than 2, and the answer
\* differs from the flag.
powered_write(s, f, v, copyOk, present, staOk, sta, pwOk) ==
    IF ~copyOk
    THEN [sc |-> s, fw |-> f, evals |-> <<>>, ret |-> "error", out |-> <<>>]
    ELSE
    LET s1 == [s EXCEPT !.powered = PoweredNormalize(v)]
        q == acpi_fan_get_power_state(s1, staOk, sta)
        p == acpi_fan_set_power(s1, s1.powered, pwOk)
    IN IF ~present
       THEN [sc |-> s1, fw |-> f, evals |-> <<>>, ret |-> "success",
             out |-> <<>>]
       ELSE IF q.state = StateUnknown
       THEN [sc |-> s1, fw |-> f, evals |-> q.evals, ret |-> "success",
             out |-> <<>>]
       ELSE IF q.state # s1.powered
       THEN [sc |-> p.sc, fw |-> f, evals |-> q.evals \o p.evals,
             ret |-> "success", out |-> <<>>]
       ELSE [sc |-> s1, fw |-> f, evals |-> q.evals, ret |-> "success",
             out |-> <<>>]

\* read request of src/acpi_fan.c: the flag as it is
powered_read(s, f) ==
    [sc |-> s, fw |-> f, evals |-> <<>>, ret |-> "success",
     out |-> <<s.powered>>]

\* the domain test of src/acpi_fan_v4.c: (fan_new == 1) || (fan_new == 0)
v4_OnAccepted(v) == v = 1 \/ v = 0

\* write request of src/acpi_fan_v4.c
v4_on_write(s, f, v, ok) ==
    LET p == IF v4_OnAccepted(v) THEN v4_acpi_fan_set_on(s, v, ok)
             ELSE [sc |-> s, evals |-> <<>>]
    IN [sc |-> p.sc, fw |-> f, evals |-> p.evals, ret |-> "success",
        out |-> <<>>]

\* read request of src/acpi_fan_v4.c: the flag is overwritten with the
\* device power state the ACPI layer reports, then output
v4_on_read(s, f, d) ==
    [sc |-> [s EXCEPT !.powered = d], fw |-> f, evals |-> <<>>,
     ret |-> "success", out |-> <<d>>]

\* an outcome the handler never gets to consult is drawn once, not per value
PoweredInputs(copyOk, present, staOk, sta, pwOk) ==
    /\ ~copyOk => ~present
    /\ ~present => ~staOk
    /\ ~staOk => sta = 0 /\ ~pwOk

acpi_fan_powered_sysctl_write ==
    /\ draft = "acpi_fan" /\ phase = "attached" /\ "powered" \in oids
    /\ \E v \in PowerArgs, copyOk \in BOOLEAN, present \in BOOLEAN,
          staOk \in BOOLEAN, sta \in StaValues, pwOk \in BOOLEAN :
         /\ PoweredInputs(copyOk, present, staOk, sta, pwOk)
         /\ Complete("power_write", v,
                     powered_write(sc, fw, v, copyOk, present, staOk, sta,
                                   pwOk))

acpi_fan_powered_sysctl_read ==
    /\ draft = "acpi_fan" /\ phase = "attached" /\ "powered" \in oids
    /\ Complete("power_read", 0, powered_read(sc, fw))

v4_acpi_fan_on_sysctl_write ==
    /\ draft = "acpi_fan_v4" /\ phase = "attached" /\ "Fan_on" \in oids
    /\ \E v \in PowerArgs, ok \in BOOLEAN :
         Complete("power_write", v, v4_on_write(sc, fw, v, ok))

v4_acpi_fan_on_sysctl_read ==
    /\ draft = "acpi_fan_v4" /\ phase = "attached" /\ "Fan_on" \in oids
    /\ \E d \in StaValues :
         Complete("power_read", 0, v4_on_read(sc, fw, d))

----------------------------------------------------------------------------
(* The device, one entry point at a time *)

Next ==
    \/ acpi_fan_attach
    \/ acpi_fan_detach
    \/ acpi_fan_suspend
    \/ acpi_fan_resume
    \/ acpi_fan_level_sysctl_write
    \/ acpi_fan_level_sysctl_read
    \/ acpi_fan_rpm_sysctl
    \/ acpi_fan_powered_sysctl_write
    \/ acpi_fan_powered_sysctl_read
    \/ v4_acpi_fan_attach
    \/ v4_acpi_fan_detach
    \/ v4_acpi_fan_suspend
    \/ v4_acpi_fan_resume
    \/ v4_acpi_fan_level_sysctl_write
    \/ v4_acpi_fan_level_sysctl_read
    \/ v4_acpi_fan_rpm_sysctl
    \/ v4_acpi_fan_on_sysctl_write
    \/ v4_acpi_fan_on_sysctl_read

Spec == Init /\ [][Next]_vars

----------------------------------------------------------------------------
(* The device under concurrent callers.  The serial lock is declared         *)
(* (ACPI_SERIAL_DECL(fan, ..)) but ACPI_SERIAL_BEGIN/END are commented out   *)
(* in src/acpi_fan.c and absent from src/acpi_fan_v4.c: a handler is entered *)
(* without waiting for anything.  A caller is inside a handler from its      *)
(* entry to its return; each firmware evaluation is one step (the caller may *)
(* sleep in it), and the softc stores made around it belong to that step.    *)

Callers == 1..NCallers
Inside == {t \in Callers : pc[t] # "idle"}

Goto(t, where) == pc' = [pc EXCEPT ![t] = where]
\* the handler returns: the caller and its request are gone
Return(t) == pc' = [pc EXCEPT ![t] = "idle"] /\ creq' = [creq EXCEPT ![t] = 0]
CFrame == UNCHANGED <<draft, phase, oids, buf, last>>

\* entry of acpi_fan_level_sysctl with a write request
c_level_enter(t) ==
    /\ phase = "attached" /\ LevelPublished /\ pc[t] = "idle"
    /\ \E v \in ReqValues : creq' = [creq EXCEPT ![t] = v]
    /\ Goto(t, "level_power")
    /\ UNCHANGED <<sc, fw>> /\ CFrame

\* the power-on of a write request
c_level_power(t) ==
    /\ pc[t] = "level_power"
    /\ \E ok \in BOOLEAN :
         LET p == IF draft = "acpi_fan" THEN level_power(sc, ok)
                  ELSE v4_level_power(sc, ok)
         IN sc' = p.sc /\ fw' = Transitioned(fw, p.evals)
    /\ Goto(t, "level_fsl")
    /\ UNCHANGED creq /\ CFrame

\* the _FSL write of a write request, and the return
c_level_fsl(t) ==
    /\ pc[t] = "level_fsl"
    /\ \E ok \in BOOLEAN, copyOk \in BOOLEAN, junk \in Indeterminate :
         LET requested_speed == SYSCTL_IN(creq[t], copyOk, junk)
             w == IF draft = "acpi_fan"
                  THEN level_fsl(sc, fw, requested_speed, ok)
                  ELSE v4_level_fsl(sc, fw, requested_speed, ok)
         IN CopyInputs(creq[t], copyOk, junk) /\ sc' = w.sc /\ fw' = w.fw
    /\ Return(t)
    /\ CFrame

\* entry of acpi_fan_level_sysctl or acpi_fan_rpm_sysctl with a read request
c_read_enter(t) ==
    /\ phase = "attached" /\ (LevelPublished \/ RpmPublished)
    /\ pc[t] = "idle"
    /\ Goto(t, "read_fst")
    /\ UNCHANGED <<sc, fw, creq>> /\ CFrame

\* the status refresh of a read request, and the return
c_read_fst(t) ==
    /\ pc[t] = "read_fst"
    /\ \E ok \in BOOLEAN :
         sc' = IF draft = "acpi_fan" THEN acpi_fan_get_fst(sc).sc
               ELSE v4_acpi_fan_get_fst(sc, fw, ok).sc
    /\ Return(t)
    /\ UNCHANGED fw /\ CFrame

\* entry of the power endpoint with a write request
c_power_enter(t) ==
    /\ phase = "attached" /\ pc[t] = "idle"
    /\ IF draft = "acpi_fan" THEN "powered" \in oids ELSE "Fan_on" \in oids
    /\ \E v \in PowerArgs :
         IF draft = "acpi_fan"
         THEN creq' = [creq EXCEPT ![t] = v] /\ Goto(t, "power_copy")
         ELSE IF v4_OnAccepted(v)
         THEN creq' = [creq EXCEPT ![t] = v] /\ Goto(t, "power_set")
         ELSE UNCHANGED <<pc, creq>>
    /\ UNCHANGED <<sc, fw>> /\ CFrame

\* src/acpi_fan.c: the value is copied into sc->fan_powered and normalised;
\* an absent device ends the request
c_power_copy(t) ==
    /\ pc[t] = "power_copy"
    /\ \E copyOk \in BOOLEAN, present \in BOOLEAN :
         IF ~copyOk THEN Return(t) /\ UNCHANGED sc
         ELSE /\ sc' = [sc EXCEPT !.powered = PoweredNormalize(creq[t])]
              /\ IF present THEN Goto(t, "power_sta") /\ UNCHANGED creq
                 ELSE Return(t)
    /\ UNCHANGED fw /\ CFrame

\* src/acpi_fan.c: the _STA query and the comparison with the flag
c_power_sta(t) ==
    /\ pc[t] = "power_sta"
    /\ \E staOk \in BOOLEAN, sta \in StaValues :
         LET q == acpi_fan_get_power_state(sc, staOk, sta)
         IN IF q.state # StateUnknown /\ q.state # sc.powered
            THEN Goto(t, "power_set") /\ UNCHANGED creq ELSE Return(t)
    /\ UNCHANGED <<sc, fw>> /\ CFrame

\* the power transition: acpi_fan_set_power(sc->dev, sc->fan_powered) or
\* acpi_fan_set_on(dev, new_state), and the return
c_power_set(t) ==
    /\ pc[t] = "power_set"
    /\ \E ok \in BOOLEAN :
         LET p == IF draft = "acpi_fan"
                  THEN acpi_fan_set_power(sc, sc.powered, ok)
                  ELSE v4_acpi_fan_set_on(sc, creq[t], ok)
         IN sc' = p.sc /\ fw' = Transitioned(fw, p.evals)
    /\ Return(t)
    /\ CFrame

\* entry of acpi_fan_suspend (0) or acpi_fan_resume (1) of
\* src/acpi_fan_v4.c; those of src/acpi_fan.c return at once
c_pm_enter(t) ==
    /\ draft = "acpi_fan_v4" /\ phase = "attached" /\ pc[t] = "idle"
    /\ \E on \in {0, 1} : creq' = [creq EXCEPT ![t] = on]
    /\ Goto(t, "power_set")
    /\ UNCHANGED <<sc, fw>> /\ CFrame

CNext ==
    \/ acpi_fan_attach
    \/ v4_acpi_fan_attach
    \/ acpi_fan_detach
    \/ v4_acpi_fan_detach
    \/ \E t \in Callers :
         \/ c_level_enter(t)
         \/ c_level_power(t)
         \/ c_level_fsl(t)
         \/ c_read_enter(t)
         \/ c_read_fst(t)
         \/ c_power_enter(t)
         \/ c_power_copy(t)
         \/ c_power_sta(t)
         \/ c_power_set(t)
         \/ c_pm_enter(t)

ConcSpec == Init /\ [][CNext]_vars

\* C4: access to one device is serialized: at most one caller is inside a
\* handler (between its entry and its return) at any time.
C4_OneCallerInside == Cardinality(Inside) <= 1

----------------------------------------------------------------------------
(* Properties of the level endpoint *)

LevelWritten == last.op = "level_write"
FslIssued == Issued(last, {"_FSL"})
FslSucceeded == \E i \in FslIssued : last.evals[i].ok
FslFailed == \E i \in FslIssued : ~last.evals[i].ok

\* C1: in percentage mode (fine_grain set) a level write whose value is
\* outside [0,100] issues no firmware evaluation at all, and leaves the
\* powered flag and the cached status as they were.
C1_OutOfRangeTouchesNothing ==
    (LevelWritten /\ last.pre.fine_grain # 0 /\ ~InPercentRange(last.arg))
        => /\ last.evals = <<>>
           /\ sc.powered = last.pre.powered
           /\ sc.fst = last.pre.fst

\* C2: in level mode (fine_grain clear) a level write is accepted, and _FSL
\* written, exactly when the value is the control value of a performance
\* state of the table.
C2_OnlyTableLevelsWritten ==
    (LevelWritten /\ last.pre.fine_grain = 0)
        => (FslIssued # {} <=> last.arg \in TableSet)

\* C5: a level write entered with the device not powered issues the
\* power-on evaluation first and the _FSL write after it, and no _FSL write
\* is issued while the powered flag says off.
C5_LevelWriteOnlyWhenPowered ==
    LevelWritten
        => /\ (last.pre.powered = 0 /\ FslIssued # {})
                => /\ last.evals[1].obj \in {"_ON", "_PS3"}
                   /\ \A i \in FslIssued : i > 1
           /\ \A i \in FslIssued : last.evals[i].pw # 0

C7_FailedWriteIsReported ==
    (LevelWritten /\ FslFailed)
        => /\ last.ret # "success"
           /\ sc.fst = last.pre.fst
           /\ sc.powered = last.pre.powered

\* a read of the level or rpm endpoint: the refresh of the cached status
Refreshed == last.op \in {"level_read", "rpm_read"}
\* the status object was evaluated, or (src/acpi_fan.c) the stub said so
RefreshSucceeded ==
    IF draft = "acpi_fan" THEN TRUE
    ELSE \E i \in Issued(last, {"_FST"}) : last.evals[i].ok

\* C8: in percentage mode, with firmware that reports back the level last
\* written, a successful write of a value in [0,100] followed by a refresh
\* leaves the cached control value equal to the written value.
C8_WriteThenRefreshRoundTrip ==
    (/\ Refreshed /\ RefreshSucceeded
     /\ last.prev.op = "level_write" /\ last.prev.wrote
     /\ last.pre.fine_grain # 0
     /\ InPercentRange(last.prev.arg) /\ fw.level = last.prev.arg)
        => sc.fst.control = last.prev.arg

\* the status object is there and answers with its three fields
StatusWellFormed ==
    /\ fw.hasFST /\ fw.fstReply.type = "package"
    /\ fw.fstReply.count = FstFields /\ fw.fstReply.elems = "integer"

\* C9: a refresh whose status object is absent, fails to evaluate or
\* answers short or malformed reports failure (the rpm endpoint outputs
\* nothing) and leaves every field of the cached status as it was.
C9_BadStatusReplyIsRefused ==
    (last.op = "rpm_read" /\ (~StatusWellFormed \/ ~RefreshSucceeded))
        => /\ last.out = <<>>
           /\ sc.fst = last.pre.fst

----------------------------------------------------------------------------
(* Properties of the power endpoint *)

PowerWritten == last.op = "power_write"
TransitionFailed == \E i \in Issued(last, PowerObjs) : ~last.evals[i].ok

C10_FailedTransitionIsUnknown ==
    (PowerWritten /\ TransitionFailed)
        => /\ sc.powered = StateUnknown
           /\ last.ret # "success"

----------------------------------------------------------------------------
(* Properties of power-on, suspend and resume *)

AllEvalsOk == \A i \in 1..Len(last.evals) : last.evals[i].ok
PowerIssued == Issued(last, PowerObjs)

\* a power-on request that directly follows a power-on request whose
\* transition was evaluated successfully, every evaluation of its own
\* succeeding too
SecondPowerOn ==
    /\ PowerWritten /\ last.arg = 1 /\ AllEvalsOk
    /\ last.prev.op = "power_write" /\ last.prev.arg = 1 /\ last.prev.wrote

\* C11: power-on is idempotent: with firmware evaluations succeeding, a
\* second power-on request right after a first leaves the softc and the
\* device power state as the first left them (flag 1, device on), and it
\* returns no error from the power path (an error is returned only when the
\* request value could not be copied in, before anything is evaluated).
C11_PowerOnIsIdempotent ==
    SecondPowerOn
        => /\ sc = last.pre
           /\ sc.powered = 1
           /\ fw.power = 1
           /\ last.ret = "error" => last.evals = <<>>

\* the second request evaluated the power-on object again and succeeded
C11_Witness ==
    SecondPowerOn /\ PowerIssued # {} /\ last.ret = "success"

\* a resume that directly follows a suspend whose power-off succeeded
ResumedAfterSuspend ==
    last.op = "resume" /\ last.prev.op = "suspend" /\ last.prev.wrote

\* C12: in level (discrete) mode, when a level L of the performance table
\* was the last one written successfully to _FSL before a suspend, the
\* resume after that suspend has written L to _FSL again and the cached
\* control value equals L.  (The firmware's level leaves its initial 0 only
\* by a successful _FSL write.)
C12_ResumeReappliesLevel ==
    (/\ ResumedAfterSuspend /\ AllEvalsOk
     /\ sc.acpi4 = 1 /\ sc.fine_grain = 0 /\ fw.level \in TableSet)
        => /\ \E i \in Issued(last, {"_FSL"}) :
                last.evals[i].arg = fw.level /\ last.evals[i].ok
           /\ sc.fst.control = fw.level

\* C13: with firmware evaluations succeeding, a suspend of a device recorded
\* as on evaluates a power-off transition and leaves the flag at 0 (off),
\* and a resume of a device recorded as off evaluates a power-on transition
\* and leaves the flag at 1 (on).
C13_SuspendOffResumeOn ==
    /\ (last.op = "suspend" /\ last.pre.powered = 1 /\ AllEvalsOk)
          => /\ PowerIssued # {}
             /\ \A i \in PowerIssued : PowerTarget(last.evals[i].obj) = 0
             /\ sc.powered = 0
    /\ (last.op = "resume" /\ last.pre.powered = 0 /\ AllEvalsOk)
          => /\ PowerIssued # {}
             /\ \A i \in PowerIssued : PowerTarget(last.evals[i].obj) = 1
             /\ sc.powered = 1

----------------------------------------------------------------------------
(* Properties of attach and detach *)

Attached == last.op = "attach"
PowerEndpoint == IF draft = "acpi_fan" THEN "powered" ELSE "Fan_on"

\* C14: when the firmware has no _FIF object, attach ends in legacy mode
\* (acpi4 = 0) with the power endpoint as the only endpoint published,
\* whatever else (_FST, _FSL) the firmware has.
C14_NoFifIsLegacy ==
    (Attached /\ ~fw.hasFIF)
        => sc.acpi4 = 0 /\ oids = {PowerEndpoint}

\* C16: when attach found the device ACPI 4.0 capable (_FIF, _FST and the
\* performance table valid, _FSL there), the mode is percentage control
\* exactly when the fine-grain flag of the firmware's _FIF reply is set and
\* level control exactly when it is clear: the softc's flag, which the level
\* handler branches on, equals the reported one, and src/acpi_fan_v4.c
\* publishes fan_speed for a set flag and current_fan_level for a clear one.
C16_ModeFollowsFineGrain ==
    (Attached /\ sc.acpi4 = 1)
        => /\ sc.fine_grain = fw.fineGrain
           /\ draft = "acpi_fan_v4"
                => /\ "fan_speed" \in oids <=> fw.fineGrain # 0
                   /\ "current_fan_level" \in oids <=> fw.fineGrain = 0

\* the reply get_fps receives is there and is not a performance table: not a
\* package, a package of fewer than two elements, or one with an element
\* that is not an integer
FpsReplyMalformed ==
    /\ fw.hasFST /\ fw.fstReply.type # "null"
    /\ \/ fw.fstReply.type # "package"
       \/ fw.fstReply.count < MinFpsCount
       \/ fw.fstReply.elems # "integer"

\* C15: when the performance-table reply is malformed, attach ends in
\* legacy mode and the softc holds no table: no reply pointer and no level
\* count.
C15_MalformedTableIsLegacy ==
    (Attached /\ FpsReplyMalformed)
        => sc.acpi4 = 0 /\ sc.fps = "NULL" /\ sc.max_fps = 0

\* what attach discovered: the mode flags, the level count and the table
Capability(s) ==
    [acpi4 |-> s.acpi4, fine_grain |-> s.fine_grain,
     max_fps |-> s.max_fps, fps |-> s.fps]

\* C17: between attach and detach no entry point (level, rpm and power
\* reads and writes, suspend, resume) changes what attach discovered: the
\* mode flags, the level count, the table pointer and its buffer, and the
\* published endpoints stay as they are; only the cached status and the
\* powered flag of the softc can change.
C17_CapabilityIsFrozen ==
    [][(phase = "attached" /\ phase' = "attached")
          => /\ Capability(sc') = Capability(sc)
             /\ oids' = oids /\ buf' = buf]_vars

\* a level write after attach that switched the powered flag and wrote the
\* level, with the capability as it was before
C17_Witness ==
    /\ phase = "attached" /\ LevelWritten /\ FslSucceeded
    /\ sc.powered # last.pre.powered
    /\ Capability(sc) = Capability(last.pre) /\ sc.acpi4 = 1

\* C18: the firmware-allocated reply buffer that get_fps obtains during
\* attach is released exactly once, by detach: it is never dropped without
\* being released, it is released only by detach, and after detach no
\* buffer is left allocated.
C18_BufferReleasedAtDetach ==
    /\ buf # "lost"
    /\ buf = "freed" => phase = "detached"
    /\ phase = "detached" => buf \in {"none", "freed"}

----------------------------------------------------------------------------
(* Properties of single requests *)

FstEvaluatedOk == \E i \in Issued(last, {"_FST"}) : last.evals[i].ok

\* C19: a read of the level or of the rpm endpoint evaluates the status
\* object _FST before it outputs, and when that evaluation succeeded on a
\* well-formed reply the value output is the firmware's current one (the
\* level it holds, the rpm at that level), not an older cached one.
C19_ReadReturnsFreshStatus ==
    /\ Refreshed => Issued(last, {"_FST"}) # {}
    /\ (last.op = "level_read" /\ FstEvaluatedOk /\ StatusWellFormed)
          => last.out = <<fw.level>>
    /\ (last.op = "rpm_read" /\ FstEvaluatedOk /\ StatusWellFormed)
          => last.out = <<Rpm(fw.level)>>

\* a power write that asks for the state the flag does not record
RecordedTransition ==
    /\ PowerWritten /\ last.ret = "success" /\ last.arg \in {0, 1}
    /\ last.pre.powered \in {0, 1} /\ last.arg # last.pre.powered

SetPowerCalled ==
    \/ /\ draft = "acpi_fan_v4"
       /\ \/ PowerWritten /\ last.arg \in {0, 1}
          \/ last.op \in {"suspend", "resume"}
    \/ LevelWritten /\ last.pre.powered = 0

----------------------------------------------------------------------------
(* Properties of the powered flag *)

\* the last entry point evaluated a power transition to state t with success
TransitionedTo(t) ==
    \E i \in PowerIssued :
        last.evals[i].ok /\ PowerTarget(last.evals[i].obj) = t

\* C21: while the device is attached the powered flag equals the target of
\* the most recent power transition the firmware evaluated successfully (on
\* when none has succeeded since attach), and an entry point changes the
\* flag only by a power transition to the new value that succeeded.
C21_FlagIsLastSuccessfulTarget ==
    phase = "attached"
        => /\ sc.powered = fw.power
           /\ (last.op # "attach" /\ sc.powered # last.pre.powered)
                 => TransitionedTo(sc.powered)

----------------------------------------------------------------------------
(* Properties of the legacy power write of src/acpi_fan.c *)

LegacyPowerWritten == draft = "acpi_fan" /\ PowerWritten
StaIssued == Issued(last, {"_STA"})

\* the _STA query of the last entry point succeeded with a state that is
\* neither 2 nor the requested state, the request taken as 0 or 1
StaAsksForTransition ==
    \E i \in StaIssued :
        /\ last.evals[i].ok
        /\ last.evals[i].val # StateUnknown
        /\ last.evals[i].val # PoweredNormalize(last.arg)

\* C23: in src/acpi_fan.c a write to the power endpoint evaluates a power
\* transition exactly when the device is present (the handler got to query
\* _STA), the query succeeded with a value other than 2, and that value
\* differs from the request taken as 0 or 1; the transition is then _ON for
\* a non-zero request and _OFF for 0.  When _STA fails, answers 2 or
\* answers the requested state, no transition is evaluated and the handler
\* returns success.
C23_TransitionOnlyWhenStaDiffers ==
    LegacyPowerWritten
        => /\ PowerIssued # {} <=> StaAsksForTransition
           /\ \A i \in PowerIssued :
                last.evals[i].obj =
                    IF PoweredNormalize(last.arg) = 1 THEN "_ON" ELSE "_OFF"
           /\ (StaIssued # {} /\ ~StaAsksForTransition)
                 => PowerIssued = {} /\ last.ret = "success"

\* a write whose _STA query succeeded and answered 2: nothing was evaluated
\* after it although the flag changed
C23_Witness ==
    /\ LegacyPowerWritten /\ PowerIssued = {}
    /\ \E i \in StaIssued :
          last.evals[i].ok /\ last.evals[i].val = StateUnknown
    /\ sc.powered # last.pre.powered

----------------------------------------------------------------------------
(* Properties of the level write of src/acpi_fan.c *)

\* C24: in src/acpi_fan.c every _FSL write the level endpoint sends to the
\* firmware carries a value in [0,100] that is exactly the value the caller
\* requested, in the percentage and in the level branch alike.
C24_FslCarriesTheRequest ==
    (draft = "acpi_fan" /\ LevelWritten)
        => \A i \in FslIssued :
              /\ InPercentRange(last.evals[i].arg)
              /\ last.evals[i].arg = last.arg

====
